---- MODULE Spec2Model ----
(***************************************************************************)
(* A model of ase/transport/selfenergy.py: the LeadSelfEnergy cache, the   *)
(* decimation loop of get_sgfinv and the Hartree/Fock assembly functions.  *)
(*                                                                         *)
(* Numbers.  numpy's complex floats are modelled by exact complex          *)
(* rationals [re, im, den] = (re + i*im)/den in lowest terms.  Energies,   *)
(* biases, eta and the matrix entries are measured in units of the class   *)
(* constant conv (1e-8), so conv itself is the number 1.                   *)
(* Matrices are sequences of rows; the shape of a matrix is visible as     *)
(* <<Len(m), Len(m[1])>>.                                                  *)
(***************************************************************************)
EXTENDS Integers, Sequences, FiniteSets, TLC

(***************************************************************************)
(* Complex rational arithmetic (the scalar operations numpy performs).     *)
(***************************************************************************)
Abs(n) == IF n < 0 THEN -n ELSE n

RECURSIVE GCD(_, _)
GCD(a, b) == IF b = 0 THEN a ELSE GCD(b, a % b)

CNorm(re, im, den) ==
    LET g == GCD(GCD(Abs(re), Abs(im)), den)
    IN  [re |-> re \div g, im |-> im \div g, den |-> den \div g]

CInt(n) == [re |-> n, im |-> 0, den |-> 1]
CI == [re |-> 0, im |-> 1, den |-> 1]
CZero == CInt(0)
CxI(a, b) == [re |-> a, im |-> b, den |-> 1]

CAdd(x, y) ==
    LET g == GCD(x.den, y.den)
        p == y.den \div g
        q == x.den \div g
    IN  CNorm(x.re * p + y.re * q, x.im * p + y.im * q, x.den * p)
CNeg(x) == [re |-> -x.re, im |-> -x.im, den |-> x.den]
CSub(x, y) == CAdd(x, CNeg(y))
CMul(x, y) == CNorm(x.re * y.re - x.im * y.im, x.re * y.im + x.im * y.re, x.den * y.den)
CConj(x) == [re |-> x.re, im |-> -x.im, den |-> x.den]
CIsZero(x) == x.re = 0 /\ x.im = 0
\* x / y for y # 0: x * conj(y) / |y|^2
CDiv(x, y) ==
    CNorm((x.re * y.re + x.im * y.im) * y.den,
          (x.im * y.re - x.re * y.im) * y.den,
          x.den * (y.re * y.re + y.im * y.im))

(***************************************************************************)
(* Dense matrices.                                                         *)
(***************************************************************************)
Rows(m) == Len(m)
Cols(m) == Len(m[1])
Shape(m) == <<Rows(m), Cols(m)>>

\* a function on 1..n as a tuple, and a matrix as a tuple of row tuples
Tuple(f) == f \o <<>>
Matrix(f) == Tuple([i \in DOMAIN f |-> Tuple(f[i])])

RECURSIVE CSum(_, _)
\* the sum of the first n entries of a sequence of numbers
CSum(xs, n) == IF n = 0 THEN CZero ELSE CAdd(CSum(xs, n - 1), xs[n])

\* npy.dot of two matrices
Dot(a, b) ==
    Matrix([i \in 1..Rows(a) |-> [j \in 1..Cols(b) |->
        CSum(Tuple([k \in 1..Cols(a) |-> CMul(a[i][k], b[k][j])]), Cols(a))]])

MSub(a, b) == Matrix([i \in 1..Rows(a) |-> [j \in 1..Cols(a) |-> CSub(a[i][j], b[i][j])]])
MNeg(a) == Matrix([i \in 1..Rows(a) |-> [j \in 1..Cols(a) |-> CNeg(a[i][j])]])
Scale(z, a) == Matrix([i \in 1..Rows(a) |-> [j \in 1..Cols(a) |-> CMul(z, a[i][j])]])

\* conjugate transpose
dagger(m) == Matrix([i \in 1..Cols(m) |-> [j \in 1..Rows(m) |-> CConj(m[j][i])]])

\* the matrix without row i and column j
Minor(m, i, j) ==
    Matrix([r \in 1..(Rows(m) - 1) |-> [c \in 1..(Rows(m) - 1) |->
        m[IF r < i THEN r ELSE r + 1][IF c < j THEN c ELSE c + 1]]])

Sign(k) == IF k % 2 = 0 THEN CInt(1) ELSE CInt(-1)

RECURSIVE Det(_)
Det(m) ==
    IF Rows(m) = 1 THEN m[1][1]
    ELSE CSum(Tuple([j \in 1..Rows(m) |->
                  CMul(CMul(Sign(1 + j), m[1][j]), Det(Minor(m, 1, j)))]), Rows(m))

Singular(m) == CIsZero(Det(m))

\* npy.linalg.solve(a, b) for a non-singular square a: the x with a x = b
Solve(a, b) ==
    LET d == Det(a)
        n == Rows(a)
        inverse == Matrix([i \in 1..n |-> [j \in 1..n |->
                       CDiv(IF n = 1 THEN CInt(1)
                                     ELSE CMul(Sign(i + j), Det(Minor(a, j, i))), d)]])
    IN  Dot(inverse, b)

\* npy.abs(m).max() <= bound, for a real bound >= 0 given as a complex rational
MaxAbsLeq(m, bound) ==
    \A i \in 1..Rows(m) : \A j \in 1..Cols(m) :
        LET x == m[i][j]
        IN  (x.re * x.re + x.im * x.im) * bound.den * bound.den
                <= bound.re * bound.re * x.den * x.den

\* an integer matrix literal as a complex matrix
IntMat(m) == Matrix([i \in 1..Len(m) |-> [j \in 1..Len(m[1]) |-> CInt(m[i][j])]])

(***************************************************************************)
(* class LeadSelfEnergy.  An instance is a record of its attributes; the   *)
(* cached energy is <<>> for None and <<e>> for the number e.              *)
(***************************************************************************)
\* conv = 1e-8, the unit of the model
Conv == 1
None == <<>>

\* iterations of the decimation loop the model follows in one call
MaxIter == 3

\* self.nbf = self.h_im.shape[1]   (NbfRows: shape[0] taken instead)
NbfRows(h_im) == Rows(h_im)
Nbf(h_im) == Cols(h_im)

\* npy.empty((nbf, nbf), complex): every cell holds the arbitrary value g
Empty(n, g) == Matrix([i \in 1..n |-> [j \in 1..n |-> g]])

\* __init__
New(hs_dii, hs_dij, hs_dim, eta, g) ==
    [h_ii |-> hs_dii[1], s_ii |-> hs_dii[2],
     h_ij |-> hs_dij[1], s_ij |-> hs_dij[2],
     h_im |-> hs_dim[1], s_im |-> hs_dim[2],
     nbf |-> Nbf(hs_dim[1]),
     eta |-> eta,
     energy |-> None,
     bias |-> 0,
     sigma_mm |-> Empty(Nbf(hs_dim[1]), g)]

\* z = energy - self.bias + self.eta * 1.j   (in __call__)
CallZ(self, energy) == CxI(energy - self.bias, self.eta)

\* z = energy - self.bias + self.eta * 1.0j  (in get_sgfinv; SgfZNoBias: the
\* bias left out)
SgfZNoBias(self, energy) == CxI(energy, self.eta)
SgfZ(self, energy) == CxI(energy - self.bias, self.eta)

\* get_sgfinv, up to the loop: the four blocks, delta = conv + 1 > conv, n = 0
\* (SgfStartAtConv: delta = conv, so that the loop is not entered)
SgfStartAtConv(self, energy) ==
    LET z == SgfZ(self, energy)
        v_00 == MSub(Scale(z, dagger(self.s_ii)), dagger(self.h_ii))
    IN  [v_00 |-> v_00,
         v_11 |-> v_00,
         v_10 |-> MSub(Scale(z, self.s_ij), self.h_ij),
         v_01 |-> MSub(Scale(z, dagger(self.s_ij)), dagger(self.h_ij)),
         delta_gt_conv |-> FALSE,
         n |-> 0]
SgfStart(self, energy) ==
    LET z == SgfZ(self, energy)
        v_00 == MSub(Scale(z, dagger(self.s_ii)), dagger(self.h_ii))
    IN  [v_00 |-> v_00,
         v_11 |-> v_00,
         v_10 |-> MSub(Scale(z, self.s_ij), self.h_ij),
         v_01 |-> MSub(Scale(z, dagger(self.s_ij)), dagger(self.h_ij)),
         delta_gt_conv |-> TRUE,
         n |-> 0]

\* delta = npy.abs(v_01).max(); the loop goes on while delta > self.conv
DeltaGtConv(v_01) == ~MaxAbsLeq(v_01, CInt(Conv))

\* one pass of the loop body, for a non-singular v_11
\* (SgfStepUpdatedFirst: v_01 assigned before v_01_dot_b is formed)
SgfStepUpdatedFirst(v) ==
    LET a == Solve(v.v_11, v.v_01)
        b == Solve(v.v_11, v.v_10)
        v_01 == MNeg(Dot(v.v_01, a))
        v_01_dot_b == Dot(v_01, b)
    IN  [v_00 |-> MSub(v.v_00, v_01_dot_b),
         v_11 |-> MSub(MSub(v.v_11, Dot(v.v_10, a)), v_01_dot_b),
         v_01 |-> v_01,
         v_10 |-> MNeg(Dot(v.v_10, b)),
         delta_gt_conv |-> DeltaGtConv(v_01),
         n |-> v.n + 1]
SgfStep(v) ==
    LET a == Solve(v.v_11, v.v_01)
        b == Solve(v.v_11, v.v_10)
        v_01_dot_b == Dot(v.v_01, b)
        v_01 == MNeg(Dot(v.v_01, a))
    IN  [v_00 |-> MSub(v.v_00, v_01_dot_b),
         v_11 |-> MSub(MSub(v.v_11, Dot(v.v_10, a)), v_01_dot_b),
         v_01 |-> v_01,
         v_10 |-> MNeg(Dot(v.v_10, b)),
         delta_gt_conv |-> DeltaGtConv(v_01),
         n |-> v.n + 1]

\* the while loop.  status: "ok" (v_00 is returned), "LinAlgError" (a solve
\* with a singular v_11 raised) or "cut" (still looping after MaxIter passes)
RECURSIVE SgfLoop(_)
SgfLoop(v) ==
    IF ~v.delta_gt_conv THEN [status |-> "ok", v_00 |-> v.v_00, n |-> v.n, solves |-> 2 * v.n]
    ELSE IF v.n >= MaxIter THEN [status |-> "cut", v_00 |-> <<>>, n |-> v.n, solves |-> 2 * v.n]
    ELSE IF Singular(v.v_11)
         THEN [status |-> "LinAlgError", v_00 |-> <<>>, n |-> v.n, solves |-> 2 * v.n + 1]
    ELSE SgfLoop(SgfStep(v))

\* get_sgfinv(energy)
get_sgfinv(self, energy) == SgfLoop(SgfStart(self, energy))

\* set_bias(bias)   (SetBiasInvalidating: the cached energy is dropped too)
SetBiasInvalidating(self, bias) == [self EXCEPT !.bias = bias, !.energy = None]
set_bias(self, bias) == [self EXCEPT !.bias = bias]

\* self.sigma_mm[:] = value: the buffer's cells are overwritten in place
SliceAssign(buf, value) ==
    Matrix([i \in 1..Rows(buf) |-> [j \in 1..Cols(buf) |-> value[i][j]]])

\* if energy != self.energy   (CacheMissAlways: the test left out)
CacheMissAlways(self, energy) == TRUE
CacheMiss(self, energy) == <<energy>> # self.energy

(***************************************************************************)
(* One LeadSelfEnergy instance used by one thread.                         *)
(*   lead  the instance                                                    *)
(*   call  the operation made last: its name, argument, outcome, the       *)
(*         cache before it and the work it did                             *)
(*   prev  the operation before that                                       *)
(*   memo  for the blocks and eta of lead: what get_sgfinv and the body of *)
(*         __call__ compute at each bias and energy of the model.  Both    *)
(*         are functions of the blocks, eta, bias and energy alone; they   *)
(*         are computed when the instance is built and looked up after.    *)
(* Two threads calling instances (further down):                           *)
(*   conc  the instances, each thread's place in __call__ and the lock     *)
(* The Hartree and Fock functions (further down):                          *)
(*   hf    the arguments and what each function returned                   *)
(* One get_sgfinv call followed pass by pass (further down):               *)
(*   loop  the locals of get_sgfinv                                        *)
(* The Movie window of ase/gui/movie.py (further down):                    *)
(*   movie the window, the gui's frame and the timeouts of the main loop   *)
(* The run function of ase/db/cli.py (further down):                       *)
(*   db    the options, the selection, the databases and what was printed  *)
(* The arrays a caller of one instance holds (further down):               *)
(*   heap  the arrays made by the calls and the references returned        *)
(***************************************************************************)
VARIABLES lead, call, prev, memo, conc, hf, loop, movie, db, heap

\* the constructions the model starts from: blocks (h, s) and eta
Chain ==
    [hs_dii |-> <<IntMat(<<<<0>>>>), IntMat(<<<<1>>>>)>>,
     hs_dij |-> <<IntMat(<<<<-3>>>>), IntMat(<<<<0>>>>)>>,
     hs_dim |-> <<IntMat(<<<<-2>>>>), IntMat(<<<<0>>>>)>>,
     eta |-> 0]
Decoupled ==
    [hs_dii |-> <<IntMat(<<<<0>>>>), IntMat(<<<<1>>>>)>>,
     hs_dij |-> <<IntMat(<<<<0>>>>), IntMat(<<<<0>>>>)>>,
     hs_dim |-> <<IntMat(<<<<1, 2>>>>), IntMat(<<<<0, 1>>>>)>>,
     eta |-> 0]
DecoupledPair ==
    [hs_dii |-> <<IntMat(<<<<0, 1>>, <<1, 2>>>>), IntMat(<<<<1, 0>>, <<0, 1>>>>)>>,
     hs_dij |-> <<IntMat(<<<<0, 0>>, <<0, 0>>>>), IntMat(<<<<0, 0>>, <<0, 0>>>>)>>,
     hs_dim |-> <<<<<<CInt(1)>>, <<CxI(0, 1)>>>>, IntMat(<<<<0>>, <<1>>>>)>>,
     eta |-> 1]
Dimer ==
    [hs_dii |-> <<IntMat(<<<<0, 0>>, <<0, 0>>>>), IntMat(<<<<1, 0>>, <<0, 1>>>>)>>,
     hs_dij |-> <<IntMat(<<<<0, 2>>, <<0, 0>>>>), IntMat(<<<<0, 0>>, <<0, 0>>>>)>>,
     hs_dim |-> <<<<<<CInt(1)>>, <<CxI(0, 1)>>>>, IntMat(<<<<0>>, <<0>>>>)>>,
     eta |-> 1]
Constructions == {Chain, Decoupled, DecoupledPair, Dimer}

\* what npy.empty may leave in a cell
Garbage == {CZero, CxI(7, 7)}

Energies == {0, 7, 14}
Biases == {0, 7}

\* the body of the if in __call__, after self.energy = energy, given what
\* get_sgfinv did (g)
Embed(self, energy, g) ==
    LET z == CallZ(self, energy)
        tau_im == MSub(Scale(z, self.s_im), self.h_im)
        tau_mi == MSub(Scale(z, dagger(self.s_im)), dagger(self.h_im))
    IN  IF g.status # "ok"
        THEN [status |-> g.status, value |-> <<>>, n |-> g.n, solves |-> g.solves]
        ELSE IF Singular(g.v_00)
        THEN [status |-> "LinAlgError", value |-> <<>>, n |-> g.n, solves |-> g.solves + 1]
        ELSE [status |-> "ok", value |-> Dot(tau_mi, Solve(g.v_00, tau_im)),
              n |-> g.n, solves |-> g.solves + 1]

MemoOf(o) ==
    [k \in Biases \X Energies |->
        LET g == get_sgfinv(set_bias(o, k[1]), k[2])
        IN  [sgf |-> g, rec |-> Embed(set_bias(o, k[1]), k[2], g)]]

\* self.get_sgfinv(energy), looked up
Sgfinv(o, energy) == memo[<<o.bias, energy>>].sgf

\* lines 22-26 of __call__, looked up
Recompute(o, energy) == memo[<<o.bias, energy>>].rec

\* __call__(energy), where r is what lines 22-26 compute when they are
\* reached: the instance afterwards, what is returned or raised, and how many
\* get_sgfinv calls, loop passes and linear solves were made
CallWith(o, energy, r) ==
    IF CacheMiss(o, energy)
    THEN LET s1 == [o EXCEPT !.energy = <<energy>>]
         IN  IF r.status = "ok"
             THEN [self |-> [s1 EXCEPT !.sigma_mm = SliceAssign(s1.sigma_mm, r.value)],
                   status |-> "ok", ret |-> SliceAssign(s1.sigma_mm, r.value),
                   sgf |-> 1, solves |-> r.solves, n |-> r.n]
             ELSE [self |-> s1,
                   status |-> r.status, ret |-> <<>>,
                   sgf |-> 1, solves |-> r.solves, n |-> r.n]
    ELSE [self |-> o, status |-> "ok", ret |-> o.sigma_mm,
          sgf |-> 0, solves |-> 0, n |-> 0]

\* __call__(energy) on the instance of the model
Call(o, energy) == CallWith(o, energy, Recompute(o, energy))

\* __call__(energy) on any instance, computed in full
CallDirect(o, energy) == CallWith(o, energy, Embed(o, energy, get_sgfinv(o, energy)))

\* 1.j * (sigma_mm - dagger(sigma_mm))   (LambdaOfSum: a sum for the difference)
LambdaOfSum(sigma_mm) ==
    Scale(CI, Matrix([i \in 1..Rows(sigma_mm) |-> [j \in 1..Cols(sigma_mm) |->
                  CAdd(sigma_mm[i][j], CConj(sigma_mm[j][i]))]]))
LambdaOf(sigma_mm) == Scale(CI, MSub(sigma_mm, dagger(sigma_mm)))

\* get_lambda(energy)
get_lambda(o, energy) ==
    LET c == Call(o, energy)
    IN  IF c.status = "ok" THEN [c EXCEPT !.ret = LambdaOf(c.ret)] ELSE c

\* the cache of an instance
Cache(o) == [energy |-> o.energy, bias |-> o.bias, sigma_mm |-> o.sigma_mm]

NoCall(o) ==
    [op |-> "none", arg |-> 0, status |-> "ok", ret |-> <<>>,
     sgf |-> 0, solves |-> 0, n |-> 0, before |-> Cache(o)]

Init ==
    /\ \E c \in Constructions : \E g \in Garbage :
           lead = New(c.hs_dii, c.hs_dij, c.hs_dim, c.eta, g)
    /\ memo = MemoOf(lead)
    /\ call = NoCall(lead)
    /\ prev = NoCall(lead)
    /\ conc = <<>>
    /\ hf = <<>>
    /\ loop = <<>>
    /\ movie = <<>>
    /\ db = <<>>
    /\ heap = <<>>

Record(op, arg, c) ==
    /\ call' = [op |-> op, arg |-> arg, status |-> c.status, ret |-> c.ret,
                sgf |-> c.sgf, solves |-> c.solves, n |-> c.n, before |-> Cache(lead)]
    /\ prev' = call
    /\ memo' = memo
    /\ UNCHANGED <<conc, hf, loop, movie, db, heap>>

\* sigma = lead(energy)
Evaluate(energy) ==
    LET c == Call(lead, energy)
    IN  /\ c.status # "cut"
        /\ lead' = c.self
        /\ Record("evaluate", energy, c)

\* lead.set_bias(bias)
SetBias(bias) ==
    /\ lead' = set_bias(lead, bias)
    /\ Record("set_bias", bias, [status |-> "ok", ret |-> <<>>, sgf |-> 0, solves |-> 0, n |-> 0])

\* lead.get_lambda(energy)
GetLambda(energy) ==
    LET c == get_lambda(lead, energy)
    IN  /\ c.status # "cut"
        /\ lead' = c.self
        /\ Record("get_lambda", energy, c)

\* lead.get_sgfinv(energy)
GetSgfinv(energy) ==
    LET g == Sgfinv(lead, energy)
    IN  /\ g.status # "cut"
        /\ lead' = lead
        /\ Record("get_sgfinv", energy,
                  [status |-> g.status, ret |-> g.v_00, sgf |-> 1, solves |-> g.solves, n |-> g.n])

Next ==
    \/ \E energy \in Energies : Evaluate(energy)
    \/ \E bias \in Biases : SetBias(bias)
    \/ \E energy \in Energies : GetLambda(energy)
    \/ \E energy \in Energies : GetSgfinv(energy)

vars == <<lead, call, prev, memo, conc, hf, loop, movie, db, heap>>

Spec == Init /\ [][Next]_vars

(***************************************************************************)
(* Properties of one instance used by one thread.                          *)
(***************************************************************************)
Cold(cache) == cache.energy = None
IsEvaluate(c) == c.op = "evaluate"
ZeroMatrix(m) == \A i \in 1..Rows(m) : \A j \in 1..Cols(m) : CIsZero(m[i][j])

\* C1: two evaluate(E) calls in a row with the same E (no set_bias between
\* them): the second makes no get_sgfinv call and no linear solve, leaves the
\* cached energy and sigma_mm as they were, and returns the matrix the first
\* returned.
C1_RepeatedEvaluateIsCacheHit ==
    (IsEvaluate(prev) /\ IsEvaluate(call) /\ call.arg = prev.arg) =>
        /\ call.sgf = 0
        /\ call.solves = 0
        /\ call.status = "ok"
        /\ lead.energy = call.before.energy
        /\ lead.sigma_mm = call.before.sigma_mm
        /\ (prev.status = "ok" => call.ret = prev.ret)

\* a first evaluate(E) that computed and returned, then evaluate(E) again
C1_Witness ==
    /\ IsEvaluate(prev) /\ IsEvaluate(call) /\ call.arg = prev.arg
    /\ prev.status = "ok" /\ prev.sgf = 1 /\ prev.solves > 0
    /\ call.ret = prev.ret

\* C2: an evaluate(E) call that raises leaves the cache as it was before the
\* call: the cached energy and sigma_mm are both unchanged.
C2_FailedEvaluateLeavesCache ==
    (IsEvaluate(call) /\ call.status # "ok") => Cache(lead) = call.before

\* the cache holds the self-energy computed for its energy at its bias
ValidCache(cache) ==
    /\ ~Cold(cache)
    /\ LET r == Recompute(set_bias(lead, cache.bias), cache.energy[1])
       IN  r.status = "ok" /\ cache.sigma_mm = r.value

\* C3: when the cache holds a computed self-energy and set_bias(b) is called
\* with b different from the bias before, the next evaluate call, whatever its
\* energy, returns the self-energy computed with the new bias.
C3_BiasChangeInvalidatesCache ==
    (/\ prev.op = "set_bias" /\ prev.arg # prev.before.bias
     /\ ValidCache(prev.before)
     /\ IsEvaluate(call) /\ call.status = "ok")
        => LET r == Recompute(lead, call.arg)
           IN  r.status = "ok" /\ call.ret = r.value

\* the parts of C4
\* a new instance is cold
C4_NewIsCold == call.op = "none" => Cold(Cache(lead))
\* the first evaluate recomputes and leaves the instance warm
C4_ColdRecomputes ==
    (IsEvaluate(call) /\ Cold(call.before)) => (call.sgf = 1 /\ ~Cold(Cache(lead)))
\* from warm: a hit on the cached energy, a recomputation on any other
C4_WarmHitOrRecompute ==
    (IsEvaluate(call) /\ ~Cold(call.before)) =>
        (call.sgf = IF call.before.energy = <<call.arg>> THEN 0 ELSE 1)
\* after a successful evaluate(E) the cached energy is E and sigma_mm holds a
\* self-energy computed for E (at one of the biases)
C4_WarmIsValid ==
    (IsEvaluate(call) /\ call.status = "ok") =>
        /\ lead.energy = <<call.arg>>
        /\ \E b \in Biases :
               LET r == Recompute(set_bias(lead, b), call.arg)
               IN  r.status = "ok" /\ lead.sigma_mm = r.value
\* no operation makes a warm instance cold
C4_NeverColdAgain == ~Cold(call.before) => ~Cold(Cache(lead))

\* C4: the cache state machine: cold at construction; the first evaluate
\* recomputes and warms; from warm, the cached energy is a hit and any other
\* energy recomputes; after a successful evaluate(E) the cached energy is E
\* and sigma_mm is the value computed for E; the instance never becomes cold
\* again.
C4_CacheStateMachine ==
    /\ C4_NewIsCold
    /\ C4_ColdRecomputes
    /\ C4_WarmHitOrRecompute
    /\ C4_WarmIsValid
    /\ C4_NeverColdAgain

\* C5: an instance whose bias was set to b before its first query, evaluated
\* at E, gives what a new instance of the same blocks and eta, left at bias 0,
\* gives when evaluated at E - b: the same matrix, or the same error.
C5_BiasShiftEquivalence ==
    (IsEvaluate(call) /\ Cold(call.before)) =>
        LET other == [lead EXCEPT !.bias = 0, !.energy = None,
                                  !.sigma_mm = call.before.sigma_mm]
            c == CallDirect(other, call.arg - lead.bias)
        IN  call.status = c.status /\ call.ret = c.ret

\* a first query at a bias that is not 0, which returned a matrix
C5_Witness ==
    /\ IsEvaluate(call) /\ Cold(call.before)
    /\ lead.bias # 0 /\ call.status = "ok" /\ call.ret # <<>>

\* C7: sigma_mm, and every matrix evaluate returns, has shape (nbf, nbf) with
\* nbf the number of columns of h_im.
C7_SigmaShape ==
    /\ Shape(lead.sigma_mm) = <<Cols(lead.h_im), Cols(lead.h_im)>>
    /\ (IsEvaluate(call) /\ call.status = "ok") =>
           Shape(call.ret) = <<Cols(lead.h_im), Cols(lead.h_im)>>

\* evaluate has returned a matrix for a lead whose h_im is not square
C7_Witness ==
    /\ IsEvaluate(call) /\ call.status = "ok" /\ call.sgf = 1
    /\ Rows(lead.h_im) # Cols(lead.h_im)

\* C8: what get_lambda(E) returns is G = i (sigma - sigma^dagger) for the
\* sigma evaluate(E) gives, and G is its own conjugate transpose.
C8_LambdaHermitian ==
    (call.op = "get_lambda" /\ call.status = "ok") =>
        LET G == call.ret
            sigma == lead.sigma_mm
            nbf == Cols(lead.h_im)
        IN  /\ lead.energy = <<call.arg>>
            /\ \A i \in 1..nbf : \A j \in 1..nbf :
                   /\ G[i][j] = CMul(CI, CSub(sigma[i][j], CConj(sigma[j][i])))
                   /\ G[i][j] = CConj(G[j][i])

\* get_lambda has returned a matrix that is not zero
C8_Witness ==
    /\ call.op = "get_lambda" /\ call.status = "ok"
    /\ ~ZeroMatrix(call.ret)
    /\ Cols(lead.h_im) > 1

\* C10: on a decoupled lead (h_ij = s_ij = 0) get_sgfinv makes one pass of
\* the loop and what it returns is z s_ii^dagger - h_ii^dagger with
\* z = energy - bias + i eta; a call that does not return raised in that
\* first pass.
C10_DecoupledOnePass ==
    (call.op = "get_sgfinv" /\ ZeroMatrix(lead.h_ij) /\ ZeroMatrix(lead.s_ij)) =>
        LET z == CxI(call.arg - lead.bias, lead.eta)
            n == Rows(lead.h_ii)
        IN  IF call.status = "ok"
            THEN /\ call.n = 1
                 /\ \A i \in 1..n : \A j \in 1..n :
                        call.ret[i][j] = CSub(CMul(z, CConj(lead.s_ii[j][i])),
                                              CConj(lead.h_ii[j][i]))
            ELSE call.n = 0 /\ call.status = "LinAlgError"

\* get_sgfinv has returned on a decoupled lead at a bias that is not 0
C10_Witness ==
    /\ call.op = "get_sgfinv" /\ call.status = "ok" /\ call.n = 1
    /\ ZeroMatrix(lead.h_ij) /\ ZeroMatrix(lead.s_ij)
    /\ lead.bias # 0 /\ Rows(lead.h_ii) > 1
(***************************************************************************)
(* Two threads calling __call__.  A call is the steps of lines 20-28: the  *)
(* test of line 20, the assignment of line 21, the computation of lines    *)
(* 22-25 and of the right-hand side of line 26 (it reads only the blocks,  *)
(* eta, the bias and the local energy), the in-place write of line 26 and  *)
(* the return of line 28.                                                  *)
(*   conc.mode    shared: both threads call instance 1, unsynchronized     *)
(*                serialized: both call instance 1, each call under a lock *)
(*                own: thread t calls instance t                           *)
(*   conc.inst    the instances                                            *)
(*   conc.thr     per thread: its place (pc), the energy of its call, the  *)
(*                value computed (tmp), what its last call returned or     *)
(*                raised (out) and the calls it has made                   *)
(*   conc.lock    the thread holding the lock, or 0                        *)
(*   conc.raised  whether some call has raised                             *)
(***************************************************************************)
MaxCalls == 2
Threads == {1, 2}
Modes == {"shared", "serialized", "own"}

\* the instance thread t calls
InstOf(mode, t) == IF mode = "own" THEN t ELSE 1

IdleThread == [pc |-> "idle", energy |-> 0, tmp |-> <<>>, out |-> <<>>, calls |-> 0]

ConcInit ==
    /\ \E c \in Constructions : \E g \in Garbage :
           lead = New(c.hs_dii, c.hs_dij, c.hs_dim, c.eta, g)
    /\ memo = MemoOf(lead)
    /\ call = <<>>
    /\ prev = <<>>
    /\ hf = <<>>
    /\ loop = <<>>
    /\ movie = <<>>
    /\ db = <<>>
    /\ heap = <<>>
    /\ \E mode \in Modes :
           conc = [mode |-> mode,
                   inst |-> [i \in Threads |-> lead],
                   thr |-> [t \in Threads |-> IdleThread],
                   lock |-> 0,
                   raised |-> FALSE]

Self(t) == conc.inst[InstOf(conc.mode, t)]
Release(t) == IF conc.lock = t THEN 0 ELSE conc.lock

\* thread t calls its instance with an energy (under the lock when serialized)
Begin(t, energy) ==
    /\ conc.thr[t].pc = "idle"
    /\ conc.thr[t].calls < MaxCalls
    /\ conc.mode = "serialized" => conc.lock = 0
    /\ conc' = [conc EXCEPT !.thr[t] = [pc |-> "check", energy |-> energy, tmp |-> <<>>,
                                        out |-> <<>>, calls |-> @.calls + 1],
                            !.lock = IF conc.mode = "serialized" THEN t ELSE @]
    /\ UNCHANGED <<lead, call, prev, memo, hf, loop, movie, db, heap>>

\* line 20: if energy != self.energy
Check(t) ==
    /\ conc.thr[t].pc = "check"
    /\ conc' = [conc EXCEPT !.thr[t].pc =
                    IF CacheMiss(Self(t), conc.thr[t].energy) THEN "assign" ELSE "return"]
    /\ UNCHANGED <<lead, call, prev, memo, hf, loop, movie, db, heap>>

\* line 21: self.energy = energy
Assign(t) ==
    /\ conc.thr[t].pc = "assign"
    /\ conc' = [conc EXCEPT !.inst[InstOf(conc.mode, t)].energy = <<conc.thr[t].energy>>,
                            !.thr[t].pc = "compute"]
    /\ UNCHANGED <<lead, call, prev, memo, hf, loop, movie, db, heap>>

\* lines 22-25 and the right-hand side of line 26; a solve may raise
Compute(t) ==
    LET r == Recompute(Self(t), conc.thr[t].energy)
    IN  /\ conc.thr[t].pc = "compute"
        /\ r.status # "cut"
        /\ conc' = IF r.status = "ok"
                   THEN [conc EXCEPT !.thr[t].tmp = r.value, !.thr[t].pc = "write"]
                   ELSE [conc EXCEPT !.thr[t].pc = "idle",
                                     !.thr[t].out = [status |-> r.status,
                                                     energy |-> conc.thr[t].energy,
                                                     ret |-> <<>>],
                                     !.lock = Release(t),
                                     !.raised = TRUE]
        /\ UNCHANGED <<lead, call, prev, memo, hf, loop, movie, db, heap>>

\* line 26: self.sigma_mm[:] = ...
Write(t) ==
    /\ conc.thr[t].pc = "write"
    /\ conc' = [conc EXCEPT !.inst[InstOf(conc.mode, t)].sigma_mm =
                                SliceAssign(@, conc.thr[t].tmp),
                            !.thr[t].pc = "return"]
    /\ UNCHANGED <<lead, call, prev, memo, hf, loop, movie, db, heap>>

\* line 28: return self.sigma_mm (what the buffer holds as the call returns)
Return(t) ==
    /\ conc.thr[t].pc = "return"
    /\ conc' = [conc EXCEPT !.thr[t].pc = "idle",
                            !.thr[t].out = [status |-> "ok",
                                            energy |-> conc.thr[t].energy,
                                            ret |-> Self(t).sigma_mm],
                            !.lock = Release(t)]
    /\ UNCHANGED <<lead, call, prev, memo, hf, loop, movie, db, heap>>

ConcNext ==
    \/ \E t \in Threads : \E energy \in Energies : Begin(t, energy)
    \/ \E t \in Threads : Check(t)
    \/ \E t \in Threads : Assign(t)
    \/ \E t \in Threads : Compute(t)
    \/ \E t \in Threads : Write(t)
    \/ \E t \in Threads : Return(t)

SpecConc == ConcInit /\ [][ConcNext]_vars

(***************************************************************************)
(* Properties of two threads calling __call__.                             *)
(***************************************************************************)
\* m is the self-energy of the energy F and not that of the energy E
OfOtherEnergy(m, E, F) ==
    /\ E # F
    /\ Recompute(lead, F).status = "ok"
    /\ m = Recompute(lead, F).value
    /\ ~(Recompute(lead, E).status = "ok" /\ m = Recompute(lead, E).value)

\* no call is in progress on instance i
Quiet(i) == \A t \in Threads : InstOf(conc.mode, t) = i => conc.thr[t].pc = "idle"

\* the cached energy of instance i is one energy while sigma_mm holds the
\* self-energy of another
CacheMismatch(i) ==
    /\ Quiet(i)
    /\ \E E \in Energies : \E F \in Energies :
           /\ conc.inst[i].energy = <<E>>
           /\ OfOtherEnergy(conc.inst[i].sigma_mm, E, F)

\* the last call of thread t returned the self-energy of another energy
HandedOther(t) ==
    /\ conc.thr[t].out # <<>>
    /\ conc.thr[t].out.status = "ok"
    /\ \E F \in Energies : OfOtherEnergy(conc.thr[t].out.ret, conc.thr[t].out.energy, F)

Unsafe == (\E i \in Threads : CacheMismatch(i)) \/ (\E t \in Threads : HandedOther(t))

\* C6: when the calls on an instance are serialized, or each thread uses its
\* own instance, no state is reachable in which the cached energy is one
\* energy while sigma_mm holds the self-energy of another, or in which a
\* caller was handed the matrix of another energy.
C6_SerializedOrOwnInstanceIsSafe ==
    conc.mode \in {"serialized", "own"} => ~Unsafe

\* C6, the unsafe half: two unsynchronized calls on one shared instance,
\* neither raising, after which the cache or a returned matrix is that of
\* the other energy
C6_UnsafeInterleaving ==
    /\ conc.mode = "shared"
    /\ ~conc.raised
    /\ \A t \in Threads : conc.thr[t].calls = 1 /\ conc.thr[t].pc = "idle"
    /\ conc.thr[1].energy # conc.thr[2].energy
    /\ Unsafe

\* C6, as far as no call raises: serialized calls and calls on own instances
\* reach no such state
C6_SafeWhileNoCallRaises ==
    (conc.mode \in {"serialized", "own"} /\ ~conc.raised) => ~Unsafe

(***************************************************************************)
(* hartree, hartree_partial, fock and fock_partial.                        *)
(* A density argument D is [list |-> FALSE, val |-> a matrix] or, for a    *)
(* list of two spin matrices, [list |-> TRUE, val |-> <<D0, D1>>].  A      *)
(* four-index tensor is V[i][j][k][l], a reduced tensor a matrix, an       *)
(* argument left out is None.                                              *)
(***************************************************************************)
MAdd(a, b) == Matrix([i \in 1..Rows(a) |-> [j \in 1..Cols(a) |-> CAdd(a[i][j], b[i][j])]])

\* m.ravel() and m.flat: the rows one after the other
Flat(m) ==
    Tuple([p \in 1..(Rows(m) * Cols(m)) |-> m[((p - 1) \div Cols(m)) + 1][((p - 1) % Cols(m)) + 1]])

\* npy.dot of two vectors
VDot(x, y) == CSum(Tuple([k \in 1..Len(x) |-> CMul(x[k], y[k])]), Len(x))

Diagonal(D) == Tuple([k \in 1..Rows(D) |-> D[k][k]])
Column(D, i) == Tuple([k \in 1..Rows(D) |-> D[k][i]])
ConjVec(x) == Tuple([k \in 1..Len(x) |-> CConj(x[k])])
Zeros(N) == Matrix([i \in 1..N |-> [j \in 1..N |-> CZero]])
Two == CInt(2)

\* what a function call did: it returned a value, or raised; NotCalled before it
Returned(v) == [status |-> "ok", value |-> v]
Raised(e) == [status |-> e, value |-> <<>>]
NotCalled == [status |-> "none", value |-> <<>>]

\* if type(D) == list: D = D[0] + D[1]  else: D = 2 * D
\* (SumOrKeep: a single matrix is not doubled)
SumOrKeep(D) == IF D.list THEN MAdd(D.val[1], D.val[2]) ELSE D.val
SumOrDouble(D) == IF D.list THEN MAdd(D.val[1], D.val[2]) ELSE Scale(Two, D.val)

hartree(D, V_ijkl) ==
    LET D2 == SumOrDouble(D)
        N == Len(D2)
    IN  Returned(Matrix([i \in 1..N |-> [j \in 1..N |->
            VDot(Flat(Matrix([k \in 1..N |-> [l \in 1..N |-> V_ijkl[i][k][j][l]]])), Flat(D2))]]))

\* the diagonal entry of hartree_partial when V_ikjk is None (lines 101-104)
HartreeDiagonal(D, V_ijij, V_iiij, i) ==
    CSub(CAdd(CAdd(VDot(Diagonal(D), V_ijij[i]), VDot(D[i], V_iiij[i])),
              VDot(Column(D, i), ConjVec(V_iiij[i]))),
         CMul(CMul(Two, D[i][i]), V_iiij[i][i]))

hartree_partial(D, V_ijij, V_ijji, V_iijj0, V_iiij0, V_ikjk) ==
    LET D2 == SumOrDouble(D)
        N == Len(D2)
        V_iijj == IF V_iijj0 = None THEN Zeros(N) ELSE V_iijj0
        V_iiij == IF V_iiij0 = None THEN Zeros(N) ELSE V_iiij0
        shared(i, j) == CAdd(CMul(D2[i][i], V_iiij[i][j]),
                             CMul(D2[j][j], CConj(V_iiij[j][i])))
        offdiag(i, j) == CAdd(CAdd(CMul(D2[i][j], V_iijj[i][j]),
                                   CMul(D2[j][i], V_ijji[i][j])),
                              shared(i, j))
    IN  Returned(Matrix([i \in 1..N |-> [j \in 1..N |->
            IF i = j
            THEN IF V_ikjk # None
                 THEN VDot(Flat(D2), Flat(Matrix([a \in 1..N |-> [b \in 1..N |-> V_ikjk[a][b][i]]])))
                 ELSE HartreeDiagonal(D2, V_ijij, V_iiij, i)
            ELSE IF V_ikjk # None
                 THEN CSub(CAdd(offdiag(i, j), VDot(Diagonal(D2), V_ikjk[i][j])),
                           shared(i, j))
                 ELSE offdiag(i, j)]]))

RECURSIVE fock(_, _)
fock(D, V_ijkl) ==
    IF D.list
    THEN Returned(<<fock([list |-> FALSE, val |-> D.val[1]], V_ijkl).value,
                    fock([list |-> FALSE, val |-> D.val[2]], V_ijkl).value>>)
    ELSE LET N == Len(D.val)
         IN  Returned(Matrix([i \in 1..N |-> [j \in 1..N |->
                 CNeg(VDot(Flat(Matrix([k \in 1..N |-> [l \in 1..N |-> V_ijkl[i][k][l][j]]])),
                           Flat(D.val)))]]))

\* the diagonal entry of fock_partial before the sign (lines 142-146)
FockDiagonal(D, V_ijij, V_ijji, V_iiij, i) ==
    CAdd(CSub(CAdd(CAdd(VDot(Diagonal(D), V_ijji[i]), VDot(D[i], V_iiij[i])),
                   VDot(Column(D, i), ConjVec(V_iiij[i]))),
              CMul(CMul(Two, D[i][i]), V_iiij[i][i])),
         CSub(CMul(D[i][i], V_ijij[i][i]), CMul(D[i][i], V_ijji[i][i])))

\* lines 133-158 of fock_partial: V_F for a D that is one matrix
FockPartialMatrix(D1, V_ijij, V_ijji, V_iijj0, V_iiij0, V_ikjk) ==
    LET N == Len(D1)
        V_iijj == IF V_iijj0 = None THEN Zeros(N) ELSE V_iijj0
        V_iiij == IF V_iiij0 = None THEN Zeros(N) ELSE V_iiij0
        offdiag(i, j) == CAdd(CAdd(CMul(D1[j][i], V_ijij[i][j]),
                                   CMul(D1[i][j], V_iijj[i][j])),
                              CAdd(CMul(D1[i][i], V_iiij[i][j]),
                                   CMul(D1[j][j], CConj(V_iiij[j][i]))))
        \* V_ikjk[:, j, i] and V_ikjk[i, :, j]
        col(j, i) == Tuple([a \in 1..N |-> V_ikjk[a][j][i]])
        row(i, j) == Tuple([a \in 1..N |-> V_ikjk[i][a][j]])
        extra(i, j) ==
            CAdd(CSub(CSub(VDot(Column(D1, i), col(j, i)),
                           CMul(D1[i][i], V_ikjk[i][j][i])),
                      CMul(D1[j][i], V_ikjk[j][j][i])),
                 CSub(CSub(VDot(D1[j], row(i, j)),
                           CMul(D1[j][j], V_ikjk[i][j][j])),
                      CMul(D1[j][i], V_ikjk[i][i][j])))
    IN  Matrix([i \in 1..N |-> [j \in 1..N |->
            IF i = j
            THEN CNeg(FockDiagonal(D1, V_ijij, V_ijji, V_iiij, i))
            ELSE IF V_ikjk # None
                 THEN CSub(CNeg(offdiag(i, j)), extra(i, j))
                 ELSE CNeg(offdiag(i, j))]])

\* with a list D, line 131 calls GetFockAll, a name bound nowhere: NameError
\* (FockPartialPerSpin: the list branch returns the pair made per spin)
FockPartialPerSpin(D, V_ijij, V_ijji, V_iijj0, V_iiij0, V_ikjk) ==
    IF D.list
    THEN Returned(<<FockPartialMatrix(D.val[1], V_ijij, V_ijji, V_iijj0, V_iiij0, V_ikjk),
                    FockPartialMatrix(D.val[2], V_ijij, V_ijji, V_iijj0, V_iiij0, V_ikjk)>>)
    ELSE Returned(FockPartialMatrix(D.val, V_ijij, V_ijji, V_iijj0, V_iiij0, V_ikjk))
fock_partial(D, V_ijij, V_ijji, V_iijj0, V_iiij0, V_ikjk) ==
    IF D.list
    THEN Raised("NameError")
    ELSE Returned(FockPartialMatrix(D.val, V_ijij, V_ijji, V_iijj0, V_iiij0, V_ikjk))

(***************************************************************************)
(* The arguments the functions are applied to.  Both full functions are    *)
(* linear in D and real-linear in V_ijkl, and so are the partial ones, so  *)
(* D is taken with a single entry 1 and V_ijkl as the symmetric tensor     *)
(* grown from one entry of value 1 or i.                                   *)
(***************************************************************************)
MaxN == 3
Sizes == 2..MaxN
Values == {CInt(1), CI}

\* the matrix with 1 at (a, b)
Unit(N, a, b) ==
    Matrix([i \in 1..N |-> [j \in 1..N |-> IF <<i, j>> = <<a, b>> THEN CInt(1) ELSE CZero]])

\* the density arguments of size N: a matrix, or a list of two spin matrices
Densities(N) ==
    {[list |-> FALSE, val |-> Unit(N, a, b)] : a \in 1..N, b \in 1..N}
        \cup {[list |-> TRUE, val |-> <<Unit(N, a, b), Unit(N, b, a)>>] : a \in 1..N, b \in 1..N}

\* the tensor with V_ijkl = V_jilk = conj(V_klij) grown from the entry v at x
Symmetric(N, x, v) ==
    LET at(y, w) == IF y = x THEN w ELSE CZero
    IN  Tuple([i \in 1..N |-> Tuple([j \in 1..N |->
            Matrix([k \in 1..N |-> [l \in 1..N |->
                CAdd(CAdd(at(<<i, j, k, l>>, v), at(<<j, i, l, k>>, v)),
                     CAdd(at(<<k, l, i, j>>, CConj(v)), at(<<l, k, j, i>>, CConj(v))))]])])])

\* the reduced tensors of V_ijkl
Reduce_ijij(V) == Matrix([i \in 1..Len(V) |-> [j \in 1..Len(V) |-> V[i][j][i][j]]])
Reduce_ijji(V) == Matrix([i \in 1..Len(V) |-> [j \in 1..Len(V) |-> V[i][j][j][i]]])
Reduce_iijj(V) == Matrix([i \in 1..Len(V) |-> [j \in 1..Len(V) |-> V[i][i][j][j]]])
Reduce_iiij(V) == Matrix([i \in 1..Len(V) |-> [j \in 1..Len(V) |-> V[i][i][i][j]]])

HFInit ==
    /\ lead = <<>>
    /\ call = <<>>
    /\ prev = <<>>
    /\ memo = <<>>
    /\ conc = <<>>
    /\ loop = <<>>
    /\ movie = <<>>
    /\ db = <<>>
    /\ heap = <<>>
    /\ \E N \in Sizes : \E D \in Densities(N) : \E x \in (1..N) \X (1..N) \X (1..N) \X (1..N) :
       \E v \in Values :
           hf = [D |-> D, V_ijkl |-> Symmetric(N, x, v),
                 hartree |-> NotCalled, hartree_pair |-> NotCalled,
                 hartree_partial |-> NotCalled,
                 fock |-> NotCalled, fock_partial |-> NotCalled]

\* V_H = hartree(D, V_ijkl)
Hartree ==
    /\ hf.hartree = NotCalled
    /\ hf' = [hf EXCEPT !.hartree = hartree(hf.D, hf.V_ijkl)]
    /\ UNCHANGED <<lead, call, prev, memo, conc, loop, movie, db, heap>>

\* V_H = hartree([D, D], V_ijkl), for a D that is one matrix
HartreePair ==
    /\ ~hf.D.list
    /\ hf.hartree_pair = NotCalled
    /\ hf' = [hf EXCEPT !.hartree_pair =
                  hartree([list |-> TRUE, val |-> <<hf.D.val, hf.D.val>>], hf.V_ijkl)]
    /\ UNCHANGED <<lead, call, prev, memo, conc, loop, movie, db, heap>>

\* V_H = hartree_partial(D, V_ijij, V_ijji, V_iijj, V_iiij)
HartreePartial ==
    /\ hf.hartree_partial = NotCalled
    /\ hf' = [hf EXCEPT !.hartree_partial =
                  hartree_partial(hf.D, Reduce_ijij(hf.V_ijkl), Reduce_ijji(hf.V_ijkl),
                                  Reduce_iijj(hf.V_ijkl), Reduce_iiij(hf.V_ijkl), None)]
    /\ UNCHANGED <<lead, call, prev, memo, conc, loop, movie, db, heap>>

\* V_F = fock(D, V_ijkl)
Fock ==
    /\ hf.fock = NotCalled
    /\ hf' = [hf EXCEPT !.fock = fock(hf.D, hf.V_ijkl)]
    /\ UNCHANGED <<lead, call, prev, memo, conc, loop, movie, db, heap>>

\* V_F = fock_partial(D, V_ijij, V_ijji, V_iijj, V_iiij)
FockPartial ==
    /\ hf.fock_partial = NotCalled
    /\ hf' = [hf EXCEPT !.fock_partial =
                  fock_partial(hf.D, Reduce_ijij(hf.V_ijkl), Reduce_ijji(hf.V_ijkl),
                               Reduce_iijj(hf.V_ijkl), Reduce_iiij(hf.V_ijkl), None)]
    /\ UNCHANGED <<lead, call, prev, memo, conc, loop, movie, db, heap>>

HFNext == Hartree \/ HartreePair \/ HartreePartial \/ Fock \/ FockPartial

SpecHF == HFInit /\ [][HFNext]_vars

(***************************************************************************)
(* Properties of the Hartree and Fock functions.                           *)
(***************************************************************************)
HartreeDone == hf.hartree # NotCalled /\ hf.hartree_partial # NotCalled
FockDone == hf.fock # NotCalled /\ hf.fock_partial # NotCalled

\* two calls did the same: both returned the same value, or both raised
Agree(a, b) == a.status = b.status /\ (a.status = "ok" => a.value = b.value)

\* C9: for every density argument D and every symmetric V_ijkl reduced to
\* V_ijij, V_ijji, V_iijj, V_iiij, hartree and hartree_partial return the
\* same matrix, and fock and fock_partial return the same matrix.
C9_FullPartialAgreement ==
    /\ HartreeDone => Agree(hf.hartree, hf.hartree_partial)
    /\ FockDone => Agree(hf.fock, hf.fock_partial)

\* every non-zero entry of V carries at most two distinct orbital indices
PairTensor(V) ==
    \A i \in 1..Len(V) : \A j \in 1..Len(V) : \A k \in 1..Len(V) : \A l \in 1..Len(V) :
        Cardinality({i, j, k, l}) > 2 => CIsZero(V[i][j][k][l])

\* C9, as far as the code agrees: a tensor whose non-zero entries carry at
\* most two distinct indices, and for fock a D that is one matrix
C9_AgreementOnPairTensors ==
    PairTensor(hf.V_ijkl) =>
        /\ HartreeDone => Agree(hf.hartree, hf.hartree_partial)
        /\ (FockDone /\ ~hf.D.list) => Agree(hf.fock, hf.fock_partial)

\* C9: the full and the partial functions differ with D one matrix
C9_DenseTensorDiffers ==
    /\ ~hf.D.list
    /\ ~PairTensor(hf.V_ijkl)
    /\ HartreeDone /\ FockDone
    /\ ~Agree(hf.hartree, hf.hartree_partial)
    /\ ~Agree(hf.fock, hf.fock_partial)

\* C9: fock returned a pair for a list D where fock_partial raised
C9_SpinListRaises ==
    /\ hf.D.list
    /\ FockDone
    /\ hf.fock_partial.status = "NameError"
    /\ hf.fock.status = "ok"

(***************************************************************************)
(* One get_sgfinv call, pass by pass.                                      *)
(*   loop.energy  the argument                                             *)
(*   loop.pc      "while" (at the test of line 53), "returned" (line 66)   *)
(*                or "LinAlgError" (a solve of lines 54-55 raised)         *)
(*   loop.v       the locals v_00, v_11, v_10, v_01, delta (as the test    *)
(*                delta > conv) and n; n is counted up to MaxCount         *)
(*   loop.a, loop.b  the locals a and b of the last pass                   *)
(*   loop.pre     the locals before the last pass                          *)
(***************************************************************************)
MaxCount == 4

\* a lead whose decimation repeats itself: s_ii = s_ij = 1, h_ii = h_ij = 0
Cyclic ==
    [hs_dii |-> <<IntMat(<<<<0>>>>), IntMat(<<<<1>>>>)>>,
     hs_dij |-> <<IntMat(<<<<0>>>>), IntMat(<<<<1>>>>)>>,
     hs_dim |-> <<IntMat(<<<<-2>>>>), IntMat(<<<<0>>>>)>>,
     eta |-> 0]
LoopConstructions == Constructions \cup {Cyclic}

\* while delta > self.conv   (WhileCapped: a cap of two passes added)
WhileCapped(v) == v.delta_gt_conv /\ v.n < 2
While(v) == v.delta_gt_conv

\* n += 1, counted up to MaxCount
Counted(v) == [v EXCEPT !.n = IF @ > MaxCount THEN MaxCount ELSE @]

LoopInit ==
    /\ \E c \in LoopConstructions : \E g \in Garbage : \E bias \in Biases :
           lead = set_bias(New(c.hs_dii, c.hs_dij, c.hs_dim, c.eta, g), bias)
    /\ \E energy \in Energies :
           loop = [energy |-> energy, pc |-> "while",
                   v |-> SgfStart(lead, energy), pre |-> SgfStart(lead, energy),
                   a |-> <<>>, b |-> <<>>]
    /\ call = <<>>
    /\ prev = <<>>
    /\ memo = <<>>
    /\ conc = <<>>
    /\ hf = <<>>
    /\ movie = <<>>
    /\ db = <<>>
    /\ heap = <<>>

\* lines 54-64: one pass of the loop body
Pass ==
    /\ loop.pc = "while"
    /\ While(loop.v)
    /\ ~Singular(loop.v.v_11)
    /\ loop' = [loop EXCEPT !.pre = loop.v,
                            !.a = Solve(loop.v.v_11, loop.v.v_01),
                            !.b = Solve(loop.v.v_11, loop.v.v_10),
                            !.v = Counted(SgfStep(loop.v))]
    /\ UNCHANGED <<lead, call, prev, memo, conc, hf, movie, db, heap>>

\* line 54: npy.linalg.solve raises on a singular v_11
PassRaises ==
    /\ loop.pc = "while"
    /\ While(loop.v)
    /\ Singular(loop.v.v_11)
    /\ loop' = [loop EXCEPT !.pc = "LinAlgError"]
    /\ UNCHANGED <<lead, call, prev, memo, conc, hf, movie, db, heap>>

\* line 66: return v_00
LoopReturn ==
    /\ loop.pc = "while"
    /\ ~While(loop.v)
    /\ loop' = [loop EXCEPT !.pc = "returned"]
    /\ UNCHANGED <<lead, call, prev, memo, conc, hf, movie, db, heap>>

LoopNext == Pass \/ PassRaises \/ LoopReturn

SpecLoop == LoopInit /\ [][LoopNext]_vars

(***************************************************************************)
(* Properties of the decimation loop.                                      *)
(***************************************************************************)
\* delta <= conv for the v_01 of the locals v
DeltaLeConv(v) == MaxAbsLeq(v.v_01, CInt(Conv))

\* the lead is Cyclic and z = energy - bias is not 0
CyclicInput ==
    /\ lead.s_ij = Cyclic.hs_dij[2] /\ lead.h_ij = Cyclic.hs_dij[1]
    /\ lead.s_ii = Cyclic.hs_dii[2] /\ lead.h_ii = Cyclic.hs_dii[1]
    /\ loop.energy # lead.bias

\* C11: get_sgfinv returns only after at least one pass, and right after the
\* first pass whose updated v_01 has delta <= conv; no pass starts once delta
\* <= conv; the only other end is the error of a solve; and on an input whose
\* delta never falls to conv the call is still in the loop after any number
\* of passes: it neither returns nor reports anything.
C11_LoopTermination ==
    /\ loop.pc = "returned" =>
           /\ loop.v.n >= 1
           /\ DeltaLeConv(loop.v)
           /\ loop.pre.delta_gt_conv
    /\ (loop.v.n >= 1 /\ loop.pre.n >= 1) => ~DeltaLeConv(loop.pre)
    /\ loop.pc = "LinAlgError" => Singular(loop.v.v_11)
    /\ CyclicInput => (loop.pc = "while" /\ (loop.v.n >= 1 => ~DeltaLeConv(loop.v)))

\* a call that returned after two passes
C11_WitnessReturned ==
    /\ loop.pc = "returned"
    /\ loop.v.n = 2
    /\ ~DeltaLeConv(loop.pre)

\* a call still in the loop after MaxCount passes, back at blocks it had
\* two passes before
C11_WitnessNoReturn ==
    /\ CyclicInput
    /\ loop.pc = "while"
    /\ loop.v.n = MaxCount
    /\ loop.pre.n = MaxCount
    /\ loop.v.v_01 = MNeg(loop.pre.v_01)

\* C16: a pass solves v_11 a = v_01 and v_11 b = v_10 with the blocks it
\* started from, and leaves v_00 - v_01 b, v_11 - v_10 a - v_01 b, -v_01 a and
\* -v_10 b, all formed from the v_01 and v_10 it started from; delta is the
\* largest absolute entry of the new v_01.
C16_DecimationStep ==
    loop.v.n >= 1 =>
        /\ Dot(loop.pre.v_11, loop.a) = loop.pre.v_01
        /\ Dot(loop.pre.v_11, loop.b) = loop.pre.v_10
        /\ loop.v.v_00 = MSub(loop.pre.v_00, Dot(loop.pre.v_01, loop.b))
        /\ loop.v.v_11 = MSub(MSub(loop.pre.v_11, Dot(loop.pre.v_10, loop.a)),
                              Dot(loop.pre.v_01, loop.b))
        /\ loop.v.v_01 = MNeg(Dot(loop.pre.v_01, loop.a))
        /\ loop.v.v_10 = MNeg(Dot(loop.pre.v_10, loop.b))
        /\ loop.v.delta_gt_conv = ~DeltaLeConv(loop.v)

\* a pass on 2 x 2 blocks with a coupling that is not zero
C16_Witness ==
    /\ loop.v.n = 1
    /\ Rows(loop.v.v_11) = 2
    /\ ~ZeroMatrix(loop.pre.v_01)
    /\ loop.v.v_00 # loop.pre.v_00

(***************************************************************************)
(* Further properties of the Hartree and Fock functions.                   *)
(***************************************************************************)
\* the density after normalisation, stated on its own: D0 + D1, or D + D
Normalized(D) == IF D.list THEN MAdd(D.val[1], D.val[2]) ELSE MAdd(D.val, D.val)

\* the sum over k and l of V[i][k][j][l] * Dn[k][l]
Coulomb(V, Dn, i, j) ==
    CSum(Tuple([k \in 1..Len(Dn) |->
             CSum(Tuple([l \in 1..Len(Dn) |-> CMul(V[i][k][j][l], Dn[k][l])]), Len(Dn))]),
         Len(Dn))

\* minus the sum over k and l of V[i][k][l][j] * D[k][l]
Exchange(V, D, i, j) ==
    CNeg(CSum(Tuple([k \in 1..Len(D) |->
                  CSum(Tuple([l \in 1..Len(D) |-> CMul(V[i][k][l][j], D[k][l])]), Len(D))]),
              Len(D)))

\* C12: hartree of one matrix D equals hartree of the spin pair (D, D), and
\* every entry of hartree is the sum over k, l of V_ijkl[i,k,j,l] * Dn[k,l]
\* with Dn = D0 + D1 for a pair and 2 D for one matrix.
C12_HartreeNormalization ==
    /\ (hf.hartree # NotCalled /\ hf.hartree_pair # NotCalled) =>
           Agree(hf.hartree, hf.hartree_pair)
    /\ hf.hartree # NotCalled =>
           /\ hf.hartree.status = "ok"
           /\ \A i \in 1..Len(hf.V_ijkl) : \A j \in 1..Len(hf.V_ijkl) :
                  hf.hartree.value[i][j] = Coulomb(hf.V_ijkl, Normalized(hf.D), i, j)

\* hartree called on one matrix and on the pair of it, with a result that is
\* not zero
C12_Witness ==
    /\ ~hf.D.list
    /\ hf.hartree.status = "ok" /\ hf.hartree_pair.status = "ok"
    /\ ~ZeroMatrix(hf.hartree.value)
    /\ hf.hartree_pair.value = hf.hartree.value

\* C15: with a list D, fock_partial raises and returns nothing, while fock
\* returns the pair of the exchange matrices of D0 and of D1.
C15_FockPartialListRaises ==
    hf.D.list =>
        /\ hf.fock_partial # NotCalled => hf.fock_partial = Raised("NameError")
        /\ hf.fock # NotCalled =>
               /\ hf.fock.status = "ok"
               /\ Len(hf.fock.value) = 2
               /\ \A s \in 1..2 : \A i \in 1..Len(hf.V_ijkl) : \A j \in 1..Len(hf.V_ijkl) :
                      hf.fock.value[s][i][j] = Exchange(hf.V_ijkl, hf.D.val[s], i, j)

\* both called with a list D: fock returned a pair that is not zero
C15_Witness ==
    /\ hf.D.list
    /\ hf.fock_partial.status = "NameError"
    /\ hf.fock.status = "ok"
    /\ ~ZeroMatrix(hf.fock.value[1])

(***************************************************************************)
(* Further properties of one instance used by one thread.                  *)
(***************************************************************************)
\* C13: set_bias(b) assigns the bias and leaves the cached energy and
\* sigma_mm as they were; an evaluate call that follows it with the cached
\* energy is a cache hit: no get_sgfinv call, no solve, and the matrix
\* returned is the one cached before the bias changed.
C13_SetBiasKeepsCache ==
    /\ call.op = "set_bias" =>
           /\ lead.bias = call.arg
           /\ lead.energy = call.before.energy
           /\ lead.sigma_mm = call.before.sigma_mm
    /\ (prev.op = "set_bias" /\ IsEvaluate(call) /\ prev.before.energy = <<call.arg>>) =>
           /\ call.status = "ok"
           /\ call.sgf = 0 /\ call.solves = 0
           /\ call.ret = prev.before.sigma_mm

\* a computed self-energy, a change of the bias, and evaluate with the cached
\* energy returning a matrix that is not the self-energy at the new bias
C13_Witness ==
    /\ prev.op = "set_bias" /\ prev.arg # prev.before.bias
    /\ ValidCache(prev.before)
    /\ IsEvaluate(call) /\ prev.before.energy = <<call.arg>>
    /\ Recompute(lead, call.arg).status = "ok"
    /\ call.ret # Recompute(lead, call.arg).value

(***************************************************************************)
(* The arrays behind the matrices a caller is handed.  An array is named   *)
(* by a reference: SigmaRef names the buffer self.sigma_mm, allocated once *)
(* in __init__ (line 16) and written only through sigma_mm[:] = ... (line  *)
(* 26); its content is lead.sigma_mm.  Every other array is made by an     *)
(* expression that builds a new one.                                       *)
(*   heap.objs   the content of the arrays SigmaRef + 1, SigmaRef + 2, ... *)
(*   heap.held   for each call that returned: the operation, its energy,   *)
(*               the reference returned, the content at the return (at)    *)
(*               and whether it recomputed (sgf)                           *)
(*   heap.calls  the calls made                                            *)
(***************************************************************************)
MaxHeld == 3
SigmaRef == 1

\* the reference __call__ returns, when fresh is the next unused reference:
\* return self.sigma_mm   (CallRefCopy: a copy is returned)
CallRefCopy(fresh) == fresh
CallRef(fresh) == SigmaRef

\* the reference get_lambda returns: 1.j * (...) is a new array
LambdaRef(fresh) == fresh

Fresh == SigmaRef + Len(heap.objs) + 1

\* what the array named ref holds now
Content(ref) == IF ref = SigmaRef THEN lead.sigma_mm ELSE heap.objs[ref - SigmaRef]

AliasInit ==
    /\ \E c \in Constructions : \E g \in Garbage :
           lead = New(c.hs_dii, c.hs_dij, c.hs_dim, c.eta, g)
    /\ memo = MemoOf(lead)
    /\ heap = [objs |-> <<>>, held |-> <<>>, calls |-> 0]
    /\ call = <<>>
    /\ prev = <<>>
    /\ conc = <<>>
    /\ hf = <<>>
    /\ loop = <<>>
    /\ movie = <<>>
    /\ db = <<>>

\* the caller keeps what a call returned: the reference ref to an array
\* holding value
Keep(op, energy, c, ref) ==
    heap' = [objs |-> IF ref = SigmaRef THEN heap.objs ELSE Append(heap.objs, c.ret),
             held |-> Append(heap.held, [op |-> op, energy |-> energy, ref |-> ref,
                                         at |-> c.ret, sgf |-> c.sgf]),
             calls |-> heap.calls + 1]

\* m = lead(energy)
HoldEvaluate(energy) ==
    LET c == Call(lead, energy)
    IN  /\ heap.calls < MaxHeld
        /\ c.status # "cut"
        /\ lead' = c.self
        /\ IF c.status = "ok"
           THEN Keep("evaluate", energy, c, CallRef(Fresh))
           ELSE heap' = [heap EXCEPT !.calls = @ + 1]
        /\ UNCHANGED <<call, prev, memo, conc, hf, loop, movie, db>>

\* m = lead.get_lambda(energy)
HoldGetLambda(energy) ==
    LET c == get_lambda(lead, energy)
    IN  /\ heap.calls < MaxHeld
        /\ c.status # "cut"
        /\ lead' = c.self
        /\ IF c.status = "ok"
           THEN Keep("get_lambda", energy, c, LambdaRef(Fresh))
           ELSE heap' = [heap EXCEPT !.calls = @ + 1]
        /\ UNCHANGED <<call, prev, memo, conc, hf, loop, movie, db>>

AliasNext ==
    \/ \E energy \in Energies : HoldEvaluate(energy)
    \/ \E energy \in Energies : HoldGetLambda(energy)

SpecAlias == AliasInit /\ [][AliasNext]_vars

(***************************************************************************)
(* Properties of the arrays a caller holds.                                *)
(***************************************************************************)
Held == 1..Len(heap.held)

\* C14: every evaluate call returns the one buffer sigma_mm, so a matrix
\* obtained from evaluate holds what the buffer holds now: after a later
\* evaluate that recomputed for another energy, the values of that energy;
\* the matrix returned by get_lambda is a new array, which no other held
\* matrix names and which holds what it held when it was returned.
C14_BufferAliasing ==
    \A i \in Held :
        LET h == heap.held[i]
        IN  /\ h.op = "evaluate" =>
                   /\ h.ref = SigmaRef
                   /\ Content(h.ref) = lead.sigma_mm
                   /\ \A j \in Held :
                          (j > i /\ heap.held[j].op = "evaluate" /\ heap.held[j].sgf = 1
                                 /\ \A k \in Held : k > j => heap.held[k].sgf = 0)
                              => /\ Content(h.ref) = heap.held[j].at
                                 /\ Content(h.ref) = Recompute(lead, heap.held[j].energy).value
            /\ h.op = "get_lambda" =>
                   /\ h.ref # SigmaRef
                   /\ \A j \in Held : j # i => heap.held[j].ref # h.ref
                   /\ Content(h.ref) = h.at

\* a matrix from evaluate(E1) that now holds the values of a later
\* evaluate(E2), and a matrix from get_lambda made before that evaluate(E2)
C14_Witness ==
    \E i \in Held : \E j \in Held : \E l \in Held :
        /\ i < j /\ l < j
        /\ heap.held[i].op = "evaluate" /\ heap.held[j].op = "evaluate"
        /\ heap.held[l].op = "get_lambda"
        /\ heap.held[i].energy # heap.held[j].energy
        /\ heap.held[j].sgf = 1
        /\ Content(heap.held[i].ref) # heap.held[i].at
        /\ Content(heap.held[i].ref) = heap.held[j].at
        /\ Content(heap.held[l].ref) = heap.held[l].at
        /\ ~ZeroMatrix(heap.held[l].at)

(***************************************************************************)
(* The Movie window of ase/gui/movie.py.                                   *)
(*   movie.nimages    gui.images.nimages                                   *)
(*   movie.frame      gui.frame                                            *)
(*   movie.value      frame_number.value, the Adjustment of lines 17-20    *)
(*   movie.direction  self.direction                                       *)
(*   movie.rock       whether the Rock button is active                    *)
(*   movie.id         self.id: <<>> for None, <<n>> for the timeout n      *)
(*   movie.timeouts   the timeouts registered with the main loop           *)
(*   movie.next       the number of the next timeout timeout_add makes     *)
(*   movie.open       whether the window exists                            *)
(*   movie.handed     the indices handed to gui.set_frame by the last event*)
(*   movie.event      the last event                                       *)
(*   movie.before     self.id when the last event arrived                  *)
(* The gui and gtk/gobject are not part of the sources: gui.set_frame(i)   *)
(* is taken to make i the gui's frame, an Adjustment to keep its value in  *)
(* its range and to call its value-changed handler when the value changes, *)
(* timeout_add to register a new timeout and source_remove to remove one.  *)
(***************************************************************************)
MaxImages == 3
MaxTimeouts == 3

Min(a, b) == IF a < b THEN a ELSE b
Max(a, b) == IF a > b THEN a ELSE b
\* Python's cmp(x, 0)
Cmp0(x) == IF x < 0 THEN -1 ELSE IF x > 0 THEN 1 ELSE 0

\* self.gui.set_frame(i)
set_frame(m, i) == [m EXCEPT !.frame = i, !.handed = Append(@, i)]

\* new_frame: self.gui.set_frame(int(self.frame_number.value))
new_frame(m) == set_frame(m, m.value)

\* self.frame_number.value = i: the value is kept within 0 .. nimages - 1 and
\* new_frame is called when it changes
SetValue(m, i) ==
    LET v == Max(0, Min(m.nimages - 1, i))
    IN  IF v = m.value THEN m ELSE new_frame([m EXCEPT !.value = v])

\* click(button, step, firstlast)
click(m, by, firstlast) ==
    LET i == IF firstlast /\ by < 0 THEN 0
             ELSE IF firstlast THEN m.nimages - 1
             ELSE Max(0, Min(m.nimages - 1, m.frame + by))
        m1 == SetValue(set_frame(m, i), i)
    IN  [m1 EXCEPT !.direction = IF firstlast THEN Cmp0(-by) ELSE Cmp0(by)]

\* gobject.source_remove(id) and gobject.timeout_add(t, self.step)
source_remove(m, id) == [m EXCEPT !.timeouts = @ \ {id}]
timeout_add(m) == [m EXCEPT !.timeouts = @ \cup {m.next}, !.id = <<m.next>>, !.next = @ + 1]

\* play   (PlayKeepsTimeout: the registered timeout is not removed first)
PlayKeepsTimeout(m) == timeout_add(m)
play(m) == timeout_add(IF m.id # None THEN source_remove(m, m.id[1]) ELSE m)

\* stop
stop(m) == IF m.id # None THEN [source_remove(m, m.id[1]) EXCEPT !.id = None] ELSE m

\* close(event)
close(m) == stop(m)

\* notify_atoms_changed: self.destroy(), whose destroy signal calls close
notify_atoms_changed(m) == [close(m) EXCEPT !.open = FALSE]

\* step   (StepRockInRange: with Rock the index is kept within the images)
StepRockInRange(m) ==
    LET d == IF m.rock
             THEN IF m.frame = 0 THEN 1
                  ELSE IF m.frame = m.nimages - 1 THEN -1 ELSE m.direction
             ELSE m.direction
        i == IF m.rock THEN Max(0, Min(m.nimages - 1, m.frame + d))
             ELSE (m.frame + d + m.nimages) % m.nimages
    IN  SetValue(set_frame([m EXCEPT !.direction = d], i), i)
step(m) ==
    LET d == IF m.rock
             THEN IF m.frame = 0 THEN 1
                  ELSE IF m.frame = m.nimages - 1 THEN -1 ELSE m.direction
             ELSE m.direction
        i == IF m.rock THEN m.frame + d
             ELSE (m.frame + d + m.nimages) % m.nimages
    IN  SetValue(set_frame([m EXCEPT !.direction = d], i), i)

\* new_time: if self.id is not None: self.play()
new_time(m) == IF m.id # None THEN play(m) ELSE m

MovieInit ==
    /\ \E n \in 1..MaxImages : \E f \in 0..(n - 1) :
           movie = [nimages |-> n, frame |-> f, value |-> f, direction |-> 1,
                    rock |-> FALSE, id |-> None, timeouts |-> {}, next |-> 1,
                    open |-> TRUE, handed |-> <<>>, event |-> "init",
                    before |-> None]
    /\ lead = <<>>
    /\ call = <<>>
    /\ prev = <<>>
    /\ memo = <<>>
    /\ conc = <<>>
    /\ hf = <<>>
    /\ loop = <<>>
    /\ db = <<>>
    /\ heap = <<>>

\* the window takes events while it exists and the gui's frame is an image
Alive == movie.open /\ movie.frame \in 0..(movie.nimages - 1)

\* the event e handled by a method that leaves the window as m
Handled(e, m) ==
    /\ movie' = [m EXCEPT !.event = e, !.before = movie.id]
    /\ UNCHANGED <<lead, call, prev, memo, conc, hf, loop, db, heap>>

Started == [movie EXCEPT !.handed = <<>>]

Click(by, firstlast) == Alive /\ Handled("click", click(Started, by, firstlast))
Play == Alive /\ movie.next <= MaxTimeouts /\ Handled("play", play(Started))
Stop == Alive /\ Handled("stop", stop(Started))
Close == Alive /\ Handled("close", close(Started))
AtomsChanged == Alive /\ Handled("notify_atoms_changed", notify_atoms_changed(Started))
NewTime ==
    /\ Alive
    /\ movie.next <= MaxTimeouts
    /\ Handled("new_time", new_time(Started))
ToggleRock == Alive /\ Handled("rock", [Started EXCEPT !.rock = ~@])
\* the frame slider moved to v
Slide(v) == Alive /\ v # movie.value /\ Handled("new_frame", new_frame([Started EXCEPT !.value = v]))
\* a registered timeout fires: the main loop calls step
Step == Alive /\ movie.timeouts # {} /\ Handled("step", step(Started))

MovieNext ==
    \/ \E d \in {-1, 1} : \E firstlast \in BOOLEAN : Click(d, firstlast)
    \/ Play
    \/ Stop
    \/ Close
    \/ AtomsChanged
    \/ NewTime
    \/ ToggleRock
    \/ \E v \in 0..(movie.nimages - 1) : Slide(v)
    \/ Step

SpecMovie == MovieInit /\ [][MovieNext]_vars

(***************************************************************************)
(* Properties of the Movie window.                                         *)
(***************************************************************************)
\* C17: at most one timeout is registered, the one self.id names; after
\* stop, close and notify_atoms_changed none is registered and id is None,
\* so that step is not called; new_time registers a timeout only when one
\* was registered.
C17_OneTimeout ==
    /\ Cardinality(movie.timeouts) <= 1
    /\ movie.timeouts = IF movie.id = None THEN {} ELSE {movie.id[1]}
    /\ movie.event \in {"stop", "close", "notify_atoms_changed"} =>
           (movie.timeouts = {} /\ movie.id = None)
    /\ movie.event = "step" => movie.before # None
    /\ movie.event = "new_time" =>
           IF movie.before = None THEN movie.id = None
           ELSE movie.id # None /\ movie.id # movie.before

\* a second play while a timeout is registered: the new timeout alone is left
C17_Witness ==
    /\ movie.event = "play"
    /\ movie.next = 3
    /\ movie.timeouts = {2}

\* C18: every index handed to gui.set_frame is within 0 .. nimages - 1, and
\* direction is -1 or +1.
C18_FrameBounds ==
    /\ \A k \in 1..Len(movie.handed) : movie.handed[k] \in 0..(movie.nimages - 1)
    /\ movie.direction \in {-1, 1}

\* C18 for a movie of at least two images
C18_FrameBoundsTwoImages ==
    movie.nimages >= 2 => C18_FrameBounds

\* a step with Rock on at the last image of several
C18_WitnessRock ==
    /\ movie.event = "step" /\ movie.rock /\ movie.nimages >= 2
    /\ movie.direction = -1
    /\ movie.handed = <<movie.nimages - 2, movie.nimages - 2>>

\* C18: a step with Rock on in a movie of one image hands over the index 1
C18_StepPastOnlyImage ==
    /\ movie.event = "step" /\ movie.rock /\ movie.nimages = 1
    /\ movie.handed = <<1>>
    /\ movie.frame = 1

(***************************************************************************)
(* The command line of ase/db/cli.py: run with --insert-into, with         *)
(* --add-keywords / --add-key-value-pairs, and with --delete.              *)
(*   db.opts      the options: insert_into, delete, yes, add_keywords,     *)
(*                add_key_value_pairs (its keys; the values play no part   *)
(*                in the counts)                                           *)
(*   db.rows      the rows of the database con: id -> its keywords and the *)
(*                keys of its key-value pairs                              *)
(*   db.ids       the ids con.select(query) yields, in order               *)
(*   db.pc        where run is: "start", "loop" (line 163), "prompt"       *)
(*                (line 197), "done"                                       *)
(*   db.branch    the branch of run that was taken                         *)
(*   db.todo      the selected rows the loop of line 163 has yet to visit  *)
(*   db.nkw, db.nkvp, db.nrows   the counters of lines 160-162             *)
(*   db.con2      the rows written to the target database, in order        *)
(*   db.answer    what raw_input returned, <<>> before                     *)
(*   db.prompted  whether raw_input was called                             *)
(*   db.deleted   the ids con.delete was called with, None before          *)
(*   db.out       what was printed                                         *)
(* The database of ase/db/core.py is not part of the sources: select is    *)
(* taken to yield the selected rows, write to append a row, delete to      *)
(* remove the rows of the ids, and update to add to each row what it lacks *)
(* and to return the numbers of keywords and of pairs added.               *)
(* A string read from the user is a sequence of characters.                *)
(***************************************************************************)
MaxRows == 3

RECURSIVE Sum(_, _)
\* sum(xs[1 .. n]) of numbers
Sum(xs, n) == IF n = 0 THEN 0 ELSE Sum(xs, n - 1) + xs[n]

Keys == {"a", "b"}
Keywords == {"w"}

UpperCase == <<"E", "N", "O", "S", "Y">>
LowerCase == <<"e", "n", "o", "s", "y">>
\* str.lower()
lower(str) ==
    Tuple([k \in 1..Len(str) |->
              IF \E u \in 1..Len(UpperCase) : UpperCase[u] = str[k]
              THEN LowerCase[CHOOSE u \in 1..Len(UpperCase) : UpperCase[u] = str[k]]
              ELSE str[k]])
yes == <<"y", "e", "s">>
Answers ==
    {yes, <<"Y", "E", "S">>, <<"Y", "e", "s">>, <<"y", "E", "s">>, <<"n", "o">>,
     <<"N", "O">>, <<"y">>, <<"y", "e", "s", " ">>, <<"y", "e">>}

\* plural(n, word)
plural(n, word) == [n |-> n, word |-> word, s |-> n # 1]

\* ids and not opts.yes (line 195)   (NeverAsks: the prompt is skipped)
NeverAsks(ids, optyes) == FALSE
Asks(ids, optyes) == ids # <<>> /\ ~optyes

\* nkvp = -len(kvp) (line 171): the count before a row's update
Before(nkvp, kvp) == 0 - Cardinality(kvp)

\* the rows of a database: ids 1 .. n
Databases ==
    UNION {[1..n -> [keywords : SUBSET Keywords, key_value_pairs : SUBSET Keys]] :
               n \in 0..MaxRows}

RECURSIVE Ascending(_)
\* a set of ids as the sequence select yields
Ascending(S) ==
    IF S = {} THEN <<>>
    ELSE LET x == CHOOSE x \in S : \A y \in S : x <= y
         IN  <<x>> \o Ascending(S \ {x})

Range(seq) == {seq[k] : k \in 1..Len(seq)}

CliInit ==
    /\ \E rows \in Databases : \E sel \in SUBSET (DOMAIN rows) :
       \E insert_into \in BOOLEAN : \E delete \in BOOLEAN : \E optyes \in BOOLEAN :
       \E add_keywords \in SUBSET Keywords : \E add_key_value_pairs \in SUBSET Keys :
           db = [opts |-> [insert_into |-> insert_into, delete |-> delete,
                           yes |-> optyes, add_keywords |-> add_keywords,
                           add_key_value_pairs |-> add_key_value_pairs],
                 rows |-> rows, start |-> rows, ids |-> Ascending(sel),
                 pc |-> "start", branch |-> "none", todo |-> <<>>,
                 nkw |-> 0, nkvp |-> 0, nrows |-> 0, con2 |-> <<>>,
                 answer |-> <<>>, prompted |-> FALSE, deleted |-> None,
                 out |-> <<>>]
    /\ lead = <<>>
    /\ call = <<>>
    /\ prev = <<>>
    /\ memo = <<>>
    /\ conc = <<>>
    /\ hf = <<>>
    /\ loop = <<>>
    /\ movie = <<>>
    /\ heap = <<>>

CliStep(d) ==
    /\ db' = d
    /\ UNCHANGED <<lead, call, prev, memo, conc, hf, loop, movie, heap>>

\* con.delete(ids) and the message of line 200
delete(d) ==
    [d EXCEPT !.rows = [id \in DOMAIN d.rows \ Range(d.ids) |-> d.rows[id]],
              !.deleted = d.ids,
              !.out = Append(@, [msg |-> "Deleted", n |-> plural(Len(d.ids), "row")]),
              !.pc = "done"]

\* lines 158-162: --insert-into, the counters start at 0
InsertInto ==
    /\ db.pc = "start" /\ db.opts.insert_into
    /\ CliStep([db EXCEPT !.pc = "loop", !.branch = "insert_into", !.todo = db.ids,
                          !.nkw = 0, !.nkvp = 0, !.nrows = 0])

\* lines 163-175: one pass of the loop over the selected rows
InsertRow ==
    /\ db.pc = "loop" /\ db.todo # <<>>
    /\ LET dct == db.rows[Head(db.todo)]
           new == db.opts.add_keywords \ dct.keywords
           keywords == dct.keywords \cup new
           kvp == dct.key_value_pairs \cup db.opts.add_key_value_pairs
       IN  CliStep([db EXCEPT
                      !.todo = Tail(@),
                      !.nkw = @ + Cardinality(new),
                      !.nkvp = Before(@, dct.key_value_pairs) + Cardinality(kvp),
                      !.con2 = Append(@, [id |-> Head(db.todo), keywords |-> keywords,
                                          key_value_pairs |-> kvp]),
                      !.nrows = @ + 1])

\* lines 177-182: the report after the loop
InsertReport ==
    /\ db.pc = "loop" /\ db.todo = <<>>
    /\ CliStep([db EXCEPT
                  !.out = @ \o
                      <<[msg |-> "Added", keywords |-> plural(db.nkw, "keyword"),
                         pairs |-> plural(db.nkvp, "key-value pair"),
                         updated |-> plural(Cardinality(db.opts.add_key_value_pairs)
                                                * db.nrows - db.nkvp, "pair")],
                        [msg |-> "Inserted", n |-> plural(db.nrows, "row")]>>,
                  !.pc = "done"])

\* lines 184-191: add keywords and key-value pairs to the selected rows
Update ==
    /\ db.pc = "start" /\ ~db.opts.insert_into
    /\ db.opts.add_keywords # {} \/ db.opts.add_key_value_pairs # {}
    /\ LET sel == Range(db.ids)
           nkw == Sum([k \in 1..Len(db.ids) |->
                      Cardinality(db.opts.add_keywords \ db.rows[db.ids[k]].keywords)],
                      Len(db.ids))
           nkv == Sum([k \in 1..Len(db.ids) |->
                      Cardinality(db.opts.add_key_value_pairs
                                      \ db.rows[db.ids[k]].key_value_pairs)],
                      Len(db.ids))
       IN  CliStep([db EXCEPT
                      !.branch = "update",
                      !.rows = [id \in DOMAIN db.rows |->
                                   IF id \in sel
                                   THEN [keywords |-> db.rows[id].keywords
                                                         \cup db.opts.add_keywords,
                                         key_value_pairs |-> db.rows[id].key_value_pairs
                                                         \cup db.opts.add_key_value_pairs]
                                   ELSE db.rows[id]],
                      !.nkw = nkw, !.nkvp = nkv,
                      !.out = Append(@,
                          [msg |-> "Added", keywords |-> plural(nkw, "keyword"),
                           pairs |-> plural(nkv, "key-value pair"),
                           updated |-> plural(Cardinality(db.opts.add_key_value_pairs)
                                                  * Len(db.ids) - nkv, "pair")]),
                      !.pc = "done"])

\* the options that reach line 193
ReachesDelete ==
    /\ db.pc = "start" /\ ~db.opts.insert_into
    /\ db.opts.add_keywords = {} /\ db.opts.add_key_value_pairs = {}

\* lines 193-196: --delete, the prompt is printed and raw_input waits
DeleteAsk ==
    /\ ReachesDelete /\ db.opts.delete
    /\ Asks(db.ids, db.opts.yes)
    /\ CliStep([db EXCEPT !.branch = "delete", !.pc = "prompt", !.prompted = TRUE,
                          !.out = Append(@, [msg |-> "Delete?",
                                             n |-> plural(Len(db.ids), "row")])])

\* lines 193-201 without a prompt
DeleteNow ==
    /\ ReachesDelete /\ db.opts.delete
    /\ ~Asks(db.ids, db.opts.yes)
    /\ CliStep(delete([db EXCEPT !.branch = "delete"]))

\* lines 197-201: the user's answer
DeleteAnswer(answer) ==
    /\ db.pc = "prompt"
    /\ CliStep(IF lower(answer) # yes
               THEN [db EXCEPT !.answer = answer, !.pc = "done"]
               ELSE delete([db EXCEPT !.answer = answer]))

\* lines 203-226: none of the options above, the rows are listed
List ==
    /\ ReachesDelete /\ ~db.opts.delete
    /\ CliStep([db EXCEPT !.branch = "list", !.pc = "done"])

CliNext ==
    \/ InsertInto
    \/ InsertRow
    \/ InsertReport
    \/ Update
    \/ DeleteAsk
    \/ DeleteNow
    \/ \E answer \in Answers : DeleteAnswer(answer)
    \/ List

SpecCli == CliInit /\ [][CliNext]_vars

(***************************************************************************)
(* Properties of the command line.                                         *)
(***************************************************************************)
\* the answers that are "yes" in some mixture of upper and lower case
YesInAnyCase ==
    {a \in Answers : /\ Len(a) = 3
                     /\ a[1] \in {"y", "Y"} /\ a[2] \in {"e", "E"} /\ a[3] \in {"s", "S"}}

DeleteDone == db.pc = "done" /\ db.branch = "delete"
SaidDeleted == \E k \in 1..Len(db.out) : db.out[k].msg = "Deleted"
SelectedGone ==
    /\ db.deleted = db.ids
    /\ DOMAIN db.rows = DOMAIN db.start \ Range(db.ids)
    /\ SaidDeleted

\* C19: with --delete, without --yes and a selection that is not empty the
\* rows are deleted exactly when the answer to the prompt is yes in any case;
\* after another answer con.delete was not called, no row is gone and no
\* deletion was reported; with --yes there is no prompt and the selected
\* rows are deleted.
C19_DeleteConfirmation ==
    DeleteDone =>
        /\ (~db.opts.yes /\ db.ids # <<>>) =>
              /\ db.prompted
              /\ IF db.answer \in YesInAnyCase THEN SelectedGone
                 ELSE db.deleted = None /\ db.rows = db.start /\ ~SaidDeleted
        /\ db.opts.yes => (~db.prompted /\ SelectedGone)

\* the answer YES deleted the selected rows and left another
C19_Witness ==
    /\ DeleteDone /\ ~db.opts.yes
    /\ db.answer = <<"Y", "E", "S">>
    /\ Len(db.ids) = 2
    /\ Cardinality(DOMAIN db.rows) = 1
    /\ SaidDeleted

\* the answer "y" deleted nothing
C19_WitnessRefused ==
    /\ DeleteDone /\ ~db.opts.yes
    /\ db.answer = <<"y">>
    /\ db.rows = db.start /\ db.deleted = None /\ db.out = <<[msg |-> "Delete?", n |-> plural(Len(db.ids), "row")]>>

\* the keys the options add to the row id that it does not have
NewlyAdded(id) == Cardinality(db.opts.add_key_value_pairs \ db.start[id].key_value_pairs)
SumNewlyAdded == Sum([k \in 1..Len(db.ids) |-> NewlyAdded(db.ids[k])], Len(db.ids))

InsertDone == db.pc = "done" /\ db.branch = "insert_into"
Reported == db.out[1]

\* C20: after --insert-into the reported number of added pairs is the sum
\* over the inserted rows of the keys newly added to each, the reported
\* number of updated pairs is len(add_key_value_pairs) * rows - that sum, and
\* the reported number of inserted rows is the number of rows written.
C20_InsertCounters ==
    InsertDone =>
        /\ Reported.pairs.n = SumNewlyAdded
        /\ Reported.updated.n =
               Cardinality(db.opts.add_key_value_pairs) * Len(db.con2) - SumNewlyAdded
        /\ db.out[2].n.n = Len(db.con2)
        /\ Len(db.con2) = Len(db.ids)

\* C20: the reported number of added pairs is that of the last row alone
C20_LastRowOnly ==
    InsertDone =>
        /\ Reported.pairs.n =
               IF db.ids = <<>> THEN 0 ELSE NewlyAdded(db.ids[Len(db.ids)])
        /\ Reported.updated.n =
               Cardinality(db.opts.add_key_value_pairs) * Len(db.con2) - Reported.pairs.n
        /\ db.out[2].n.n = Len(db.con2)
        /\ Len(db.con2) = Len(db.ids)

\* C20: two rows inserted, a key added to the first and none to the second:
\* no added pair is reported
C20_FirstRowForgotten ==
    /\ InsertDone
    /\ Len(db.con2) = 2
    /\ NewlyAdded(db.ids[1]) = 1 /\ NewlyAdded(db.ids[2]) = 0
    /\ Reported.pairs.n = 0
    /\ Reported.updated.n = 2

====
